---- MODULE Spec2Model ----
(***************************************************************************)
(* notify_me: the scheduler's tick loop (src/src/scheduler/mod.rs), the    *)
(* event rows it reads (src/src/event/mod.rs) and the events table         *)
(* (src/src/main.rs).                                                      *)
(*                                                                         *)
(* Instants are whole seconds since 2024-01-01T00:00:00Z.  The local zone  *)
(* is taken to have a fixed offset of zero, so local and UTC calendar      *)
(* fields coincide.                                                        *)
(***************************************************************************)
EXTENDS Integers, Sequences, FiniteSets, TLC

(* ------------------------------------------------------------------ *)
(* Bounds of the model.                                                *)
(* ------------------------------------------------------------------ *)

\* Largest number of rows in the events table at start-up.
MaxEvents == 2

\* Number of ticks the loop is followed for.
MaxTicks == 12

\* Number of changes other processes make to the table, and the number of
\* ticks the loop is followed for while they do.
MaxEdits == 2
EnvTicks == 2

\* Last day, counted from 2024-01-01, of the dates the recurrence rules are
\* tried on, and the number of ticks each of them is followed for.
MaxDay == 730
CalcTicks == 2

(* ------------------------------------------------------------------ *)
(* Program constants.                                                  *)
(* ------------------------------------------------------------------ *)

\* tokio::time::interval(Duration::from_secs(60))
TickSeconds == 60

\* datetime('now', '+10 minutes')
LeadSeconds == 600

(* ------------------------------------------------------------------ *)
(* Calendar arithmetic (chrono, SQLite date functions).                *)
(* ------------------------------------------------------------------ *)

IsLeap(y) == (y % 4 = 0 /\ y % 100 # 0) \/ y % 400 = 0

DaysInYear(y) == IF IsLeap(y) THEN 366 ELSE 365

DaysInMonth(y, m) ==
    IF m = 2 THEN (IF IsLeap(y) THEN 29 ELSE 28)
    ELSE IF m \in {4, 6, 9, 11} THEN 30
    ELSE 31

RECURSIVE DaysBeforeYear(_)
DaysBeforeYear(y) ==
    IF y <= 2024 THEN 0 ELSE DaysBeforeYear(y - 1) + DaysInYear(y - 1)

RECURSIVE DaysBeforeMonth(_, _)
DaysBeforeMonth(y, m) ==
    IF m <= 1 THEN 0 ELSE DaysBeforeMonth(y, m - 1) + DaysInMonth(y, m - 1)

\* Is (year, month, day) a day of the calendar?
ValidDate(y, m, d) == m \in 1..12 /\ d \in 1..DaysInMonth(y, m)

\* The instant of a civil date and time.
FromCivil(c) ==
    (DaysBeforeYear(c.year) + DaysBeforeMonth(c.year, c.month) + (c.day - 1)) * 86400
        + c.hour * 3600 + c.minute * 60 + c.second

RECURSIVE YearFrom(_, _)
YearFrom(days, y) ==
    IF days < DaysInYear(y) THEN [year |-> y, rest |-> days]
    ELSE YearFrom(days - DaysInYear(y), y + 1)

RECURSIVE MonthFrom(_, _, _)
MonthFrom(days, y, m) ==
    IF days < DaysInMonth(y, m) THEN [month |-> m, rest |-> days]
    ELSE MonthFrom(days - DaysInMonth(y, m), y, m + 1)

\* The civil fields of an instant: date.year(), date.month(), ...
CivilOf(t) ==
    LET yr  == YearFrom(t \div 86400, 2024)
        mo  == MonthFrom(yr.rest, yr.year, 1)
        sod == t % 86400
    IN  [year   |-> yr.year,
         month  |-> mo.month,
         day    |-> mo.rest + 1,
         hour   |-> sod \div 3600,
         minute |-> (sod % 3600) \div 60,
         second |-> sod % 60]

\* chrono's Option<DateTime>: <<>> is None, <<t>> is Some(t).
None == <<>>
Some(t) == <<t>>

\* DateTime::with_year: None when the day does not exist in that year.
WithYear(t, y) ==
    LET c == CivilOf(t)
    IN  IF ValidDate(y, c.month, c.day)
        THEN Some(FromCivil([c EXCEPT !.year = y]))
        ELSE None

\* DateTime::with_month: None when the day does not exist in that month.
WithMonth(t, m) ==
    LET c == CivilOf(t)
    IN  IF ValidDate(c.year, m, c.day)
        THEN Some(FromCivil([c EXCEPT !.month = m]))
        ELSE None

(* ------------------------------------------------------------------ *)
(* The events table.                                                   *)
(* ------------------------------------------------------------------ *)

\* A stored date is TEXT: "rfc3339" text is read by SQLite and by chrono,
\* "naive" text (no zone offset) by SQLite only, "garbage" by neither.
DateText(kind, t) == [text |-> kind, at |-> t]

\* Recurrence texts the enum is written as.
RecurrenceTexts == {"once", "daily", "weekly", "monthly"}

\* impl FromSql for RecurrencePattern
FromSql(text) ==
    CASE text = "once"    -> "Once"
      [] text = "daily"   -> "Daily"
      [] text = "weekly"  -> "Weekly"
      [] text = "monthly" -> "Monthly"
      [] OTHER            -> "Err"

\* strftime('%Y-%m-%d %H:%M', x): the calendar fields down to the minute,
\* <<>> (NULL) when x is no date SQLite can read.
Strftime(d) ==
    IF d.text = "garbage" THEN <<>>
    ELSE LET c == CivilOf(d.at)
         IN  <<c.year, c.month, c.day, c.hour, c.minute>>

\* The WHERE clause without its deleted_at test.
IsDueDeletedToo(row, t) ==
    LET d == Strftime(row.date)
    IN  /\ d # <<>>
        /\ \/ d = Strftime(DateText("rfc3339", t))
           \/ d = Strftime(DateText("rfc3339", t + LeadSeconds))

\* The WHERE clause comparing the day only, as the client's query does.
IsDueSameDay(row, t) ==
    LET d == Strftime(row.date)
    IN  /\ d # <<>>
        /\ SubSeq(d, 1, 3) = SubSeq(Strftime(DateText("rfc3339", t)), 1, 3)
        /\ row.deleted_at = {}

\* The WHERE clause without its '+10 minutes' alternative.
IsDueNoLead(row, t) ==
    LET d == Strftime(row.date)
    IN  /\ d # <<>>
        /\ d = Strftime(DateText("rfc3339", t))
        /\ row.deleted_at = {}

\* The WHERE clause of the due-event query, evaluated at instant t.
IsDue(row, t) ==
    LET d == Strftime(row.date)
    IN  /\ d # <<>>
        /\ \/ d = Strftime(DateText("rfc3339", t))
           \/ d = Strftime(DateText("rfc3339", t + LeadSeconds))
        /\ row.deleted_at = {}

\* DateTime::parse_from_rfc3339(..).unwrap(): does the unwrap panic?
ParsePanics(row) == row.date.text # "rfc3339"

\* The closure of query_map on one row: Err (recurrence column), a panic
\* (date column), or the Event.
RowDecodes(row) == FromSql(row.recurrence_pattern) # "Err"

RowPanics(row) == RowDecodes(row) /\ ParsePanics(row)

ToEvent(row) ==
    [id                 |-> row.id,
     name               |-> row.name,
     message            |-> row.message,
     recurrence_pattern |-> FromSql(row.recurrence_pattern),
     date               |-> row.date.at,
     deleted_at         |-> row.deleted_at]

(* ------------------------------------------------------------------ *)
(* Scheduler.                                                          *)
(* ------------------------------------------------------------------ *)

\* Rows the query returns, in primary-key order.
QueryRows(table, t) == SelectSeq(table, LAMBDA row: IsDue(row, t))

\* The collect with the rows taken last first.
RECURSIVE CollectReversed(_)
CollectReversed(rows) ==
    IF rows = <<>> THEN <<>>
    ELSE IF FromSql(Head(rows).recurrence_pattern) # "Err"
         THEN CollectReversed(Tail(rows))
                \o <<[id                 |-> Head(rows).id,
                      name               |-> Head(rows).name,
                      message            |-> Head(rows).message,
                      recurrence_pattern |-> FromSql(Head(rows).recurrence_pattern),
                      date               |-> Head(rows).date.at,
                      deleted_at         |-> Head(rows).deleted_at]>>
         ELSE CollectReversed(Tail(rows))

\* .filter_map(|event| event.ok()).collect::<Vec<Event>>()
RECURSIVE Collect(_)
Collect(rows) ==
    IF rows = <<>> THEN <<>>
    ELSE IF RowDecodes(Head(rows))
         THEN <<ToEvent(Head(rows))>> \o Collect(Tail(rows))
         ELSE Collect(Tail(rows))

CollectPanics(rows) == \E i \in 1..Len(rows): RowPanics(rows[i])

\* The match without its Once arm.
MustAdvanceAlways(event) == TRUE

\* match event.recurrence_pattern { Once => (), _ => update_event_date }
MustAdvance(event) == event.recurrence_pattern # "Once"

\* The loop body with the notifier's error dropped before the match.
AfterNotifyIgnoringErr(ok, event) ==
    IF MustAdvance(event) THEN "update"
    ELSE IF ~ok THEN "return_err"
    ELSE "next"

\* The loop body going on to the next event when the notifier failed.
AfterNotifyContinue(ok, event) ==
    IF ~ok THEN "next"
    ELSE IF MustAdvance(event) THEN "update"
    ELSE "next"

\* What the loop body does after Notification::show() returned.
AfterNotify(ok, event) ==
    IF ~ok THEN "return_err"
    ELSE IF MustAdvance(event) THEN "update"
    ELSE "next"

\* The loop body going on to the next event after a successful update.
AfterUpdateContinue(ok) == IF ok THEN "next" ELSE "return_err"

\* What the loop body does after update_event_date returned.
AfterUpdate(ok) == IF ok THEN "return_ok" ELSE "return_err"

\* new_date with Duration::days(1) in the Weekly arm too.
NewDateDaysOnly(date, recurrence) ==
    CASE recurrence = "Daily"  -> date + 86400
      [] recurrence = "Weekly" -> date + 86400
      [] recurrence = "Monthly" -> date

\* new_date with the Monthly arm keeping the year in December.
NewDateSameYear(date, recurrence) ==
    CASE recurrence = "Daily"  -> date + 86400
      [] recurrence = "Weekly" -> date + 7 * 86400
      [] recurrence = "Monthly" ->
            LET moved == WithMonth(date, (CivilOf(date).month % 12) + 1)
            IN  IF moved = None THEN date ELSE moved[1]

\* new_date with the Monthly arm moving to the first day after the next
\* month's end when the day does not exist there.
NewDateOverflowing(date, recurrence) ==
    CASE recurrence = "Daily"  -> date + 86400
      [] recurrence = "Weekly" -> date + 7 * 86400
      [] recurrence = "Monthly" ->
            date + DaysInMonth(CivilOf(date).year, CivilOf(date).month) * 86400

\* new_date of update_event_date, for the three recurring patterns.
NewDate(date, recurrence) ==
    CASE recurrence = "Daily"  -> date + 86400
      [] recurrence = "Weekly" -> date + 7 * 86400
      [] recurrence = "Monthly" ->
            LET next_month == (CivilOf(date).month % 12) + 1
                next_year  == IF next_month = 1
                              THEN CivilOf(date).year + 1
                              ELSE CivilOf(date).year
                moved      == WithMonth(WithYear(date, next_year)[1], next_month)
            IN  IF moved = None THEN date ELSE moved[1]

\* new_date with with_month(next_month).unwrap() in the Monthly arm.
NewDatePanicsOnShortMonth(date, recurrence) ==
    \/ recurrence = "Once"
    \/ /\ recurrence = "Monthly"
       /\ WithMonth(date, (CivilOf(date).month % 12) + 1) = None
       /\ CivilOf(date).month # 12

\* with_year(next_year).unwrap() and unreachable!(): does new_date panic?
NewDatePanics(date, recurrence) ==
    \/ recurrence = "Once"
    \/ /\ recurrence = "Monthly"
       /\ WithYear(date, IF CivilOf(date).month = 12
                         THEN CivilOf(date).year + 1
                         ELSE CivilOf(date).year) = None

VARIABLES
    store,      \* the events table: a sequence of rows, row i has id i
    created,    \* history: the events table as it was at start-up
    edits,      \* history: what other processes did to the table, and when
    now,        \* the wall clock
    ticks,      \* ticks started so far
    pc,         \* where Scheduler::start is
    events,     \* check_and_notify: the collected Vec<Event>
    idx,        \* check_and_notify: position of the for loop in events
    result,     \* what check_and_notify returned: "none", "ok" or an error text
    log,        \* the last record written to the log
    notifs,     \* history: every Notification::show() call
    writes      \* history: every update_event_date call

vars == <<store, created, edits, now, ticks, pc, events, idx, result, log, notifs, writes>>

(* ------------------------------------------------------------------ *)
(* Start-up: the database file as main() opens it.                     *)
(* ------------------------------------------------------------------ *)

\* 2024-01-31T23:59:00 and 2024-02-01T00:00:00
DateA == FromCivil([year |-> 2024, month |-> 1, day |-> 31,
                    hour |-> 23, minute |-> 59, second |-> 0])
DateB == DateA + 60

RowChoices ==
    {[recurrence_pattern |-> r, date |-> DateText("rfc3339", DateA), deleted_at |-> {}]
        : r \in {"once", "daily", "monthly"}}
    \cup
    {[recurrence_pattern |-> r, date |-> DateText("rfc3339", DateB + 30), deleted_at |-> {}]
        : r \in {"once", "weekly", "monthly"}}
    \cup
    {[recurrence_pattern |-> "daily", date |-> DateText("rfc3339", DateA),
      deleted_at |-> {DateA - 86400}],
     [recurrence_pattern |-> "yearly", date |-> DateText("rfc3339", DateA),
      deleted_at |-> {}],
     [recurrence_pattern |-> "once", date |-> DateText("naive", DateB),
      deleted_at |-> {}],
     [recurrence_pattern |-> "daily", date |-> DateText("garbage", DateA),
      deleted_at |-> {}]}

MkRow(i, c) ==
    [id                 |-> i,
     name               |-> "event",
     message            |-> "",
     recurrence_pattern |-> c.recurrence_pattern,
     date               |-> c.date,
     deleted_at         |-> c.deleted_at]

StartInstants == {DateA - LeadSeconds, DateA - LeadSeconds + 42}

Fresh ==
    /\ ticks = 0
    /\ pc = "wait"
    /\ events = <<>>
    /\ idx = 0
    /\ result = "none"
    /\ log = [level |-> "info", msg |-> "Starting scheduler", event_id |-> {}]
    /\ notifs = <<>>
    /\ writes = <<>>
    /\ edits = {}

Init ==
    /\ \E n \in 1..MaxEvents:
         \E f \in [1..n -> RowChoices]:
            store = [i \in 1..n |-> MkRow(i, f[i])]
    /\ created = store
    /\ now \in StartInstants
    /\ Fresh

(* ------------------------------------------------------------------ *)
(* Scheduler::start and Scheduler::check_and_notify, step by step.     *)
(* ------------------------------------------------------------------ *)

\* interval.tick().await; info!("Starting tick").  The first tick of a
\* tokio interval completes at once, each later one a period after.
Tick ==
    /\ pc = "wait"
    /\ ticks < MaxTicks
    /\ ticks' = ticks + 1
    /\ now' = IF ticks = 0 THEN now ELSE now + TickSeconds
    /\ pc' = "prepare"
    /\ events' = <<>>
    /\ idx' = 0
    /\ result' = "none"
    /\ log' = [level |-> "info", msg |-> "Starting tick", event_id |-> {}]
    /\ UNCHANGED <<store, created, edits, notifs, writes>>

\* self.conn.prepare("SELECT ...")
Prepare ==
    /\ pc = "prepare"
    /\ \E ok \in BOOLEAN:
         IF ok
         THEN pc' = "query" /\ UNCHANGED result
         ELSE pc' = "log" /\ result' = "prepare failed"
    /\ UNCHANGED <<store, created, edits, now, ticks, events, idx, log, notifs, writes>>

\* A scheduler that reads the rows it saw at start-up.
TableAtStartup == created

\* What the statement is run against: the connection's table as it is now
\* (struct Scheduler holds the connection and no rows).
Table == store

\* stmt.query_map(..) and the collect of its rows.
Query ==
    /\ pc = "query"
    /\ \E ok \in BOOLEAN:
         IF ~ok
         THEN pc' = "log" /\ result' = "query failed" /\ UNCHANGED <<events, idx>>
         ELSE LET rows == QueryRows(Table, now)
              IN  IF CollectPanics(rows)
                  THEN pc' = "panicked" /\ UNCHANGED <<events, idx, result>>
                  ELSE /\ events' = Collect(rows)
                       /\ idx' = 1
                       /\ pc' = "loop"
                       /\ UNCHANGED result
    /\ UNCHANGED <<store, created, edits, now, ticks, log, notifs, writes>>

\* One iteration of the for loop up to the match on the recurrence.
Notify ==
    /\ pc = "loop"
    /\ idx <= Len(events)
    /\ \E ok \in BOOLEAN:
         LET event == events[idx]
             step  == AfterNotify(ok, event)
         IN  /\ notifs' = Append(notifs, [tick |-> ticks, id |-> event.id,
                                          summary |-> event.name, body |-> event.message,
                                          date |-> event.date, at |-> now,
                                          ok |-> ok])
             /\ CASE step = "return_err" ->
                        pc' = "log" /\ result' = "notification failed" /\ UNCHANGED idx
                  [] step = "update" ->
                        pc' = "update" /\ UNCHANGED <<result, idx>>
                  [] step = "next" ->
                        pc' = "loop" /\ idx' = idx + 1 /\ UNCHANGED result
    /\ UNCHANGED <<store, created, edits, now, ticks, events, log, writes>>

\* The for loop is over: Ok(()).
LoopEnd ==
    /\ pc = "loop"
    /\ idx > Len(events)
    /\ pc' = "log"
    /\ result' = "ok"
    /\ UNCHANGED <<store, created, edits, now, ticks, events, idx, log, notifs, writes>>

\* The UPDATE without its WHERE clause.
SetDateAllRows(table, id, t) ==
    [i \in 1..Len(table) |-> [table[i] EXCEPT !.date = [text |-> "rfc3339", at |-> t]]]

\* The row of the table with this id, with its date replaced.
SetDate(table, id, t) ==
    [i \in 1..Len(table) |->
        IF table[i].id = id
        THEN [table[i] EXCEPT !.date = DateText("rfc3339", t)]
        ELSE table[i]]

\* self.update_event_date(event) and the match on its result.
UpdateEventDate ==
    /\ pc = "update"
    /\ LET event == events[idx]
           call(outcome, new) ==
               Append(writes, [tick |-> ticks, id |-> event.id,
                               recurrence_pattern |-> event.recurrence_pattern,
                               old |-> event.date, new |-> new, outcome |-> outcome])
           finish(ok, text) ==
               LET step == AfterUpdate(ok)
               IN  CASE step = "return_ok" ->
                            pc' = "log" /\ result' = "ok" /\ UNCHANGED idx
                     [] step = "return_err" ->
                            pc' = "log" /\ result' = text /\ UNCHANGED idx
                     [] step = "next" ->
                            pc' = "loop" /\ idx' = idx + 1 /\ UNCHANGED result
       IN  \E prepared \in BOOLEAN, executed \in BOOLEAN:
             IF ~prepared
             THEN /\ writes' = call("prepare failed", event.date)
                  /\ finish(FALSE, "prepare failed")
                  /\ UNCHANGED store
             ELSE IF NewDatePanics(event.date, event.recurrence_pattern)
             THEN /\ writes' = call("panic", event.date)
                  /\ pc' = "panicked"
                  /\ UNCHANGED <<store, idx, result>>
             ELSE LET new_date == NewDate(event.date, event.recurrence_pattern)
                  IN  IF executed
                      THEN /\ store' = SetDate(store, event.id, new_date)
                           /\ writes' = call("ok", new_date)
                           /\ finish(TRUE, "ok")
                      ELSE /\ writes' = call("execute failed", new_date)
                           /\ finish(FALSE, "execute failed")
                           /\ UNCHANGED store
    /\ UNCHANGED <<created, edits, now, ticks, events, log, notifs>>

\* What the match on the tick's result logs: info! for Ok, error! with the
\* error's text for Err; neither names an event.
LogRecord(res) ==
    IF res = "ok"
    THEN [level |-> "info", msg |-> "Successfully ticked", event_id |-> {}]
    ELSE [level |-> "error", msg |-> res, event_id |-> {}]

\* if let Err(err) = .. { error!("{}", err) } else { info!("Successfully ticked") }
Log ==
    /\ pc = "log"
    /\ log' = LogRecord(result)
    /\ pc' = "wait"
    /\ UNCHANGED <<store, created, edits, now, ticks, events, idx, result, notifs, writes>>

Next ==
    \/ Tick
    \/ Prepare
    \/ Query
    \/ Notify
    \/ LoopEnd
    \/ UpdateEventDate
    \/ Log

Spec == Init /\ [][Next]_vars

(* ------------------------------------------------------------------ *)
(* The recurrence rules on every day of two years: one recurring event *)
(* and a scheduler started in the minute the event is due.             *)
(* ------------------------------------------------------------------ *)

CalcDates == {d * 86400 + tod : d \in 0..MaxDay, tod \in {9 * 3600, 86370}}

CalcInit ==
    /\ \E r \in {"daily", "weekly", "monthly"}, t \in CalcDates:
         /\ store = <<MkRow(1, [recurrence_pattern |-> r,
                                date |-> DateText("rfc3339", t),
                                deleted_at |-> {}])>>
         /\ now \in {t, t - LeadSeconds}
    /\ created = store
    /\ Fresh

CalcNext ==
    \/ (ticks < CalcTicks /\ Tick)
    \/ Prepare
    \/ Query
    \/ Notify
    \/ LoopEnd
    \/ UpdateEventDate
    \/ Log

CalcSpec == CalcInit /\ [][CalcNext]_vars

(* ------------------------------------------------------------------ *)
(* The scheduler next to other processes that change the table between *)
(* its ticks.                                                          *)
(* ------------------------------------------------------------------ *)

\* Between two ticks, with changes left to make.
EnvTurn ==
    /\ pc = "wait"
    /\ ticks >= 1
    /\ ticks < EnvTicks
    /\ Cardinality(edits) < MaxEdits

\* Client::create_event: a new row with the next id, a recurrence text of
\* the enum, a date typed to the minute, and no deleted_at.
CreateEvent ==
    /\ EnvTurn
    /\ Len(store) < MaxEvents
    /\ \E r \in {"once", "daily"}:
         store' = Append(store, MkRow(Len(store) + 1,
                                      [recurrence_pattern |-> r,
                                       date |-> DateText("rfc3339", DateB),
                                       deleted_at |-> {}]))
    /\ edits' = edits \cup {[tick |-> ticks, kind |-> "insert", id |-> Len(store) + 1]}
    /\ UNCHANGED <<created, now, ticks, pc, events, idx, result, log, notifs, writes>>

\* The delete operation: deleted_at of a row is set.
SoftDelete ==
    /\ EnvTurn
    /\ \E i \in DOMAIN store:
         /\ store[i].deleted_at = {}
         /\ store' = [store EXCEPT ![i].deleted_at = {now}]
         /\ edits' = edits \cup {[tick |-> ticks, kind |-> "delete", id |-> store[i].id]}
    /\ UNCHANGED <<created, now, ticks, pc, events, idx, result, log, notifs, writes>>

\* The update operation: a row gets another date.
Redate ==
    /\ EnvTurn
    /\ \E i \in DOMAIN store:
         /\ store[i].date # DateText("rfc3339", DateB)
         /\ store' = [store EXCEPT ![i].date = DateText("rfc3339", DateB)]
         /\ edits' = edits \cup {[tick |-> ticks, kind |-> "redate", id |-> store[i].id]}
    /\ UNCHANGED <<created, now, ticks, pc, events, idx, result, log, notifs, writes>>

EnvInit ==
    /\ \E c \in RowChoices: store = <<MkRow(1, c)>>
    /\ created = store
    /\ now = DateA - LeadSeconds
    /\ Fresh

EnvNext ==
    \/ (ticks < EnvTicks /\ Tick)
    \/ Prepare
    \/ Query
    \/ Notify
    \/ LoopEnd
    \/ UpdateEventDate
    \/ Log
    \/ CreateEvent
    \/ SoftDelete
    \/ Redate

EnvSpec == EnvInit /\ [][EnvNext]_vars

(* ------------------------------------------------------------------ *)
(* Vocabulary of the properties.                                       *)
(* ------------------------------------------------------------------ *)

Ids == 1..Len(store)

\* Positions of the two histories that belong to tick k.
NotifsOf(k) == {p \in DOMAIN notifs: notifs[p].tick = k}
WritesOf(k) == {p \in DOMAIN writes: writes[p].tick = k}

\* Calls of the notifier for event id, and the successful ones among them.
Calls(id) == {p \in DOMAIN notifs: notifs[p].id = id}
Alerts(id) == {p \in Calls(id): notifs[p].ok}

IsOnce(id) == created[id].recurrence_pattern = "once"
IsRecurring(id) == created[id].recurrence_pattern \in {"daily", "weekly", "monthly"}

\* The minute an instant falls in.
MinuteOf(t) == t \div 60

\* check_and_notify has returned for the current tick.
TickOver == pc \in {"log", "wait"} /\ ticks > 0

(* ------------------------------------------------------------------ *)
(* C1                                                                  *)
(* ------------------------------------------------------------------ *)

\* C1: when a tick ends in Ok (no notifier or store call failed), every event
\* of the batch was notified exactly once in the tick and every recurring
\* event of the batch had its new date computed and written in the tick.
C1_EveryDueEventHandled ==
    (TickOver /\ result = "ok") =>
        \A i \in DOMAIN events:
            /\ Cardinality({p \in NotifsOf(ticks): notifs[p].id = events[i].id}) = 1
            /\ events[i].recurrence_pattern # "Once" =>
                   \E p \in WritesOf(ticks):
                       writes[p].id = events[i].id /\ writes[p].outcome = "ok"

(* ------------------------------------------------------------------ *)
(* C2                                                                  *)
(* ------------------------------------------------------------------ *)

\* C2: as long as no update call has failed, every recurring event a finished
\* tick has notified is stored with a date later than the occurrence it was
\* notified for, and no recurring event is notified twice for one occurrence.
C2_AdvancedBeforeNextSelection ==
    (\A p \in DOMAIN writes: writes[p].outcome = "ok") =>
        /\ TickOver =>
              \A p \in DOMAIN notifs:
                  (notifs[p].ok /\ IsRecurring(notifs[p].id)) =>
                      store[notifs[p].id].date.at > notifs[p].date
        /\ \A p, q \in DOMAIN notifs:
              (/\ p < q
               /\ notifs[p].id = notifs[q].id
               /\ IsRecurring(notifs[p].id)
               /\ notifs[p].ok /\ notifs[q].ok) =>
                  notifs[p].date # notifs[q].date

(* ------------------------------------------------------------------ *)
(* C3                                                                  *)
(* ------------------------------------------------------------------ *)

\* C3 as stated: a Once event is never notified more than once.
C3_OnceAtMostOnce ==
    \A id \in Ids: IsOnce(id) => Cardinality(Alerts(id)) <= 1

\* C3 as amended: the notifier is called for a Once event at most twice, at
\* most once in a tick, and only in the tick of the minute ten minutes before
\* its date and in the tick of the minute of its date.
C3_OnceAtMostTwice ==
    \A id \in Ids:
        IsOnce(id) =>
            /\ Cardinality(Calls(id)) <= 2
            /\ \A p, q \in Calls(id): p # q => notifs[p].tick # notifs[q].tick
            /\ \A p \in Calls(id):
                  MinuteOf(notifs[p].date) - MinuteOf(notifs[p].at) \in {0, 10}

\* A Once event that got the alert of the lead minute and the alert of its
\* own minute.
C3_Witness ==
    \E id \in Ids:
        /\ IsOnce(id)
        /\ \E p, q \in Alerts(id):
              /\ MinuteOf(notifs[p].date) - MinuteOf(notifs[p].at) = 10
              /\ MinuteOf(notifs[q].date) - MinuteOf(notifs[q].at) = 0

(* ------------------------------------------------------------------ *)
(* C4                                                                  *)
(* ------------------------------------------------------------------ *)

\* C4: the stored date of a Once event is the date it was created with, and
\* update_event_date is never called with a Once event.
C4_OnceNeverMutated ==
    /\ \A id \in Ids: IsOnce(id) => store[id].date = created[id].date
    /\ \A p \in DOMAIN writes: writes[p].recurrence_pattern # "Once"

\* A Once event after a tick that notified it and a tick whose notifier call
\* for it failed.
C4_Witness ==
    /\ pc = "wait"
    /\ \E id \in Ids:
          /\ IsOnce(id)
          /\ \E p, q \in Calls(id): notifs[p].ok /\ ~notifs[q].ok

(* ------------------------------------------------------------------ *)
(* C5                                                                  *)
(* ------------------------------------------------------------------ *)

\* C5: an event whose deleted_at is set is never notified, never passed to
\* update_event_date, and keeps its date.
C5_DeletedNeverTouched ==
    \A id \in Ids:
        store[id].deleted_at # {} =>
            /\ Calls(id) = {}
            /\ \A p \in DOMAIN writes: writes[p].id # id
            /\ store[id].date = created[id].date

\* The query has run in a minute a deleted event's date matches, in its own
\* minute or ten minutes ahead.
C5_Witness ==
    /\ pc = "loop"
    /\ \E id \in Ids:
          /\ store[id].deleted_at # {}
          /\ MinuteOf(store[id].date.at) - MinuteOf(now) \in {0, 10}

(* ------------------------------------------------------------------ *)
(* C6                                                                  *)
(* ------------------------------------------------------------------ *)

\* The selection rule as the contract words it: not deleted, and the date's
\* minute is the current minute or the current minute plus ten.
ExpectedDue(row, t) ==
    /\ row.deleted_at = {}
    /\ row.date.text # "garbage"
    /\ MinuteOf(row.date.at) - MinuteOf(t) \in {0, 10}

\* C6: the batch of a tick is exactly the stored events ExpectedDue selects
\* (rows that decode to an Event); every notifier and update call is for an
\* event whose minute matched in its tick; a tick with an empty batch returns
\* Ok, logs no error, and calls neither the notifier nor the store update.
C6_SelectionIsTheWindow ==
    /\ pc \in {"loop", "update"} =>
          {events[i].id : i \in DOMAIN events} =
              {id \in Ids: /\ ExpectedDue(store[id], now)
                           /\ store[id].recurrence_pattern \in RecurrenceTexts}
    /\ \A p \in DOMAIN notifs:
          MinuteOf(notifs[p].date) - MinuteOf(notifs[p].at) \in {0, 10}
    /\ \A p \in DOMAIN writes:
          \E q \in NotifsOf(writes[p].tick):
              notifs[q].id = writes[p].id /\ notifs[q].date = writes[p].old
    /\ (TickOver /\ idx >= 1 /\ events = <<>>) =>
          /\ result = "ok"
          /\ NotifsOf(ticks) = {}
          /\ WritesOf(ticks) = {}
          /\ pc = "wait" => log.level = "info"

\* A tick, started off the minute boundary, whose batch holds one of two live
\* events: the one due in ten minutes, its date not on a minute boundary.
C6_Witness ==
    /\ pc = "loop"
    /\ Len(store) = 2
    /\ \A id \in Ids: store[id].deleted_at = {} /\ store[id].date.text = "rfc3339"
    /\ Len(events) = 1
    /\ now % 60 # 0
    /\ events[1].date % 60 # 0
    /\ MinuteOf(events[1].date) - MinuteOf(now) = 10

(* ------------------------------------------------------------------ *)
(* C7                                                                  *)
(* ------------------------------------------------------------------ *)

\* C7: whatever a tick meets, the process does not panic.
C7_TickLoopNeverStops == pc # "panicked"

(* ------------------------------------------------------------------ *)
(* C8                                                                  *)
(* ------------------------------------------------------------------ *)

\* C8: a step changes a stored date only of an event the notifier has
\* accepted earlier in the same tick; every update call is for such an event;
\* and after a failed notifier call the event has, to the end of the tick, the
\* date it was selected with and no update call.
C8_WriteOnlyAfterAlert ==
    /\ [][\A i \in DOMAIN store:
            store'[i].date # store[i].date =>
                \E p \in NotifsOf(ticks): notifs[p].id = store[i].id /\ notifs[p].ok]_vars
    /\ [](\A p \in DOMAIN writes:
            \E q \in NotifsOf(writes[p].tick):
                notifs[q].id = writes[p].id /\ notifs[q].ok)
    /\ [](\A p \in NotifsOf(ticks):
            ~notifs[p].ok =>
                /\ store[notifs[p].id].date.at = notifs[p].date
                /\ \A q \in WritesOf(ticks): writes[q].id # notifs[p].id)

\* A tick that notified a recurring event and stored a later date for it.
C8_Witness ==
    /\ TickOver
    /\ \E p \in WritesOf(ticks):
          /\ writes[p].outcome = "ok"
          /\ writes[p].new > writes[p].old
          /\ store[writes[p].id].date.at = writes[p].new

(* ------------------------------------------------------------------ *)
(* C9                                                                  *)
(* ------------------------------------------------------------------ *)

\* C9: a failed notifier call is the last call of its tick: no notifier call
\* follows it in that tick, the tick has no update call at all, the tick
\* returns the notifier's error and logs it, and the notifier calls made
\* before it in the tick stand.
C9_FailureStopsBatch ==
    \A p \in DOMAIN notifs:
        ~notifs[p].ok =>
            /\ \A q \in NotifsOf(notifs[p].tick): q <= p
            /\ WritesOf(notifs[p].tick) = {}
            /\ notifs[p].tick = ticks =>
                  /\ pc \in {"log", "wait"}
                  /\ result = "notification failed"
                  /\ pc = "wait" => (log.level = "error" /\ log.msg = result)
                  /\ \A i \in 1..(idx - 1):
                        \E q \in NotifsOf(ticks):
                            q < p /\ notifs[q].id = events[i].id /\ notifs[q].ok

\* Two events due in one tick, the notifier failed for the first.
C9_Witness ==
    /\ pc = "wait"
    /\ Len(events) = 2
    /\ \E p \in NotifsOf(ticks): notifs[p].id = events[1].id /\ ~notifs[p].ok

(* ------------------------------------------------------------------ *)
(* C10                                                                 *)
(* ------------------------------------------------------------------ *)

\* The day after a civil date, the time of day kept.
NextDay(c) ==
    IF c.day < DaysInMonth(c.year, c.month) THEN [c EXCEPT !.day = c.day + 1]
    ELSE IF c.month < 12 THEN [c EXCEPT !.month = c.month + 1, !.day = 1]
    ELSE [c EXCEPT !.year = c.year + 1, !.month = 1, !.day = 1]

RECURSIVE DaysLater(_, _)
DaysLater(c, n) == IF n = 0 THEN c ELSE DaysLater(NextDay(c), n - 1)

\* C10: the date update_event_date stores for a Daily event is the old date's
\* next calendar day, for a Weekly event the seventh day after it, with the
\* time of day of the old date.
C10_DailyWeeklyStep ==
    \A p \in DOMAIN writes:
        writes[p].outcome = "ok" =>
            /\ writes[p].recurrence_pattern = "Daily" =>
                  CivilOf(writes[p].new) = DaysLater(CivilOf(writes[p].old), 1)
            /\ writes[p].recurrence_pattern = "Weekly" =>
                  CivilOf(writes[p].new) = DaysLater(CivilOf(writes[p].old), 7)
            /\ writes[p].tick = ticks =>
                  store[writes[p].id].date = DateText("rfc3339", writes[p].new)

\* A Weekly event moved from the last week of February of a leap year into
\* March, stored.
C10_Witness ==
    \E p \in DOMAIN writes:
        /\ writes[p].outcome = "ok"
        /\ writes[p].recurrence_pattern = "Weekly"
        /\ CivilOf(writes[p].old).year = 2024
        /\ CivilOf(writes[p].old).month = 2
        /\ CivilOf(writes[p].new).month = 3
        /\ store[writes[p].id].date.at = writes[p].new

(* ------------------------------------------------------------------ *)
(* C11, C12                                                            *)
(* ------------------------------------------------------------------ *)

\* The month after a civil date's month, and the year that month is in.
FollowingMonth(c) == IF c.month = 12 THEN 1 ELSE c.month + 1
FollowingYear(c) == IF c.month = 12 THEN c.year + 1 ELSE c.year

\* Does the day of the month exist in the following month?
DayExistsNext(c) == c.day <= DaysInMonth(FollowingYear(c), FollowingMonth(c))

\* C11: for a Monthly event whose day exists in the following month, the date
\* update_event_date stores has the same day and time of day, the following
\* month, and the year raised by one exactly when the old month was December.
C11_MonthlyStep ==
    \A p \in DOMAIN writes:
        (/\ writes[p].recurrence_pattern = "Monthly"
         /\ DayExistsNext(CivilOf(writes[p].old))) =>
            /\ writes[p].outcome # "panic"
            /\ writes[p].outcome = "ok" =>
                  LET old == CivilOf(writes[p].old)
                      new == CivilOf(writes[p].new)
                  IN  /\ new.day = old.day
                      /\ new.hour = old.hour
                      /\ new.minute = old.minute
                      /\ new.second = old.second
                      /\ new.month = (IF old.month = 12 THEN 1 ELSE old.month + 1)
                      /\ new.year = (IF old.month = 12 THEN old.year + 1 ELSE old.year)
                      /\ writes[p].tick = ticks =>
                            store[writes[p].id].date = DateText("rfc3339", writes[p].new)

\* A Monthly event of 31 December stored in January of the next year, and one
\* of 29 February 2024 stored in March.
C11_Witness ==
    \E p \in DOMAIN writes:
        /\ writes[p].outcome = "ok"
        /\ writes[p].recurrence_pattern = "Monthly"
        /\ store[writes[p].id].date.at = writes[p].new
        /\ \/ /\ CivilOf(writes[p].old).month = 12
              /\ CivilOf(writes[p].old).day = 31
              /\ CivilOf(writes[p].new).year = CivilOf(writes[p].old).year + 1
           \/ /\ CivilOf(writes[p].old).month = 2
              /\ CivilOf(writes[p].old).day = 29
              /\ CivilOf(writes[p].new).month = 3

\* 2024-01-31T09:00:00
Jan31At9 == FromCivil([year |-> 2024, month |-> 1, day |-> 31,
                       hour |-> 9, minute |-> 0, second |-> 0])

\* C12: for a Monthly event whose day does not exist in the following month,
\* update_event_date does not panic, and the date it stores is the old date.
C12_MonthlyFallback ==
    \A p \in DOMAIN writes:
        (/\ writes[p].recurrence_pattern = "Monthly"
         /\ ~DayExistsNext(CivilOf(writes[p].old))) =>
            /\ writes[p].outcome # "panic"
            /\ writes[p].new = writes[p].old
            /\ store[writes[p].id].date = DateText("rfc3339", writes[p].old)

\* The event of 2024-01-31 09:00 after one firing, stored at 2024-01-31 09:00.
C12_Witness ==
    /\ TickOver
    /\ \E p \in WritesOf(ticks):
          /\ writes[p].outcome = "ok"
          /\ writes[p].recurrence_pattern = "Monthly"
          /\ writes[p].old = Jan31At9
          /\ store[writes[p].id].date.at = Jan31At9

(* ------------------------------------------------------------------ *)
(* C13                                                                 *)
(* ------------------------------------------------------------------ *)

\* A row that is an event the scheduler can read, not deleted.
Live(row) ==
    /\ row.deleted_at = {}
    /\ row.date.text = "rfc3339"
    /\ row.recurrence_pattern \in RecurrenceTexts

\* C13, for a table of one event: when no notifier or store call has failed,
\* a tick that ends in the minute ten minutes before the event's occurrence,
\* or in the minute of the occurrence, has notified the event for it.
C13_BothAlerts ==
    (/\ TickOver
     /\ result = "ok"
     /\ Len(created) = 1
     /\ \A p \in DOMAIN notifs: notifs[p].ok
     /\ \A p \in DOMAIN writes: writes[p].outcome = "ok") =>
        \A id \in Ids:
            (/\ Live(created[id])
             /\ MinuteOf(created[id].date.at) - MinuteOf(now) \in {0, 10}) =>
                \E p \in NotifsOf(ticks):
                    notifs[p].id = id /\ notifs[p].date = created[id].date.at

(* ------------------------------------------------------------------ *)
(* C14                                                                 *)
(* ------------------------------------------------------------------ *)

\* The ids the notifier was called for in the current tick, in call order.
NotifiedNow ==
    LET n == Cardinality(NotifsOf(ticks))
    IN  [j \in 1..n |-> notifs[Len(notifs) - n + j].id]

\* The ids of the batch up to position k.
BatchIds(k) == [j \in 1..k |-> events[j].id]

\* C14: the batch is in the order of the table; inside the loop the notifier
\* has been called for exactly the events before the loop's position (and
\* the one at it, when its update is what comes next), in batch order; in
\* every tick the calls are in table order, and an update call is for the
\* event of the tick's last notifier call.
C14_SequentialInStoreOrder ==
    /\ \A i, j \in DOMAIN events: i < j => events[i].id < events[j].id
    /\ pc = "loop" => (idx >= 1 /\ NotifiedNow = BatchIds(idx - 1))
    /\ pc = "update" => (idx >= 1 /\ NotifiedNow = BatchIds(idx))
    /\ \A p, q \in DOMAIN notifs:
          (p < q /\ notifs[p].tick = notifs[q].tick) => notifs[p].id < notifs[q].id
    /\ \A p \in DOMAIN writes:
          \E q \in NotifsOf(writes[p].tick):
              /\ notifs[q].id = writes[p].id
              /\ \A r \in NotifsOf(writes[p].tick): r <= q

\* The update of the second event of a batch is next, the first event
\* notified before it.
C14_Witness ==
    /\ pc = "update"
    /\ idx = 2
    /\ Len(NotifiedNow) = 2

(* ------------------------------------------------------------------ *)
(* C16                                                                 *)
(* ------------------------------------------------------------------ *)

\* C16: a tick whose query has matched a row with an unknown recurrence text
\* returns an error, and the row is neither notified nor changed.
C16_UnknownRecurrenceIsAnError ==
    (TickOver /\ idx >= 1) =>
        \A id \in Ids:
            (/\ store[id].recurrence_pattern \notin RecurrenceTexts
             /\ ExpectedDue(store[id], now)) =>
                /\ result # "ok"
                /\ Calls(id) = {}
                /\ store[id] = created[id]

(* ------------------------------------------------------------------ *)
(* C18                                                                 *)
(* ------------------------------------------------------------------ *)

\* C18: a step of the scheduler keeps the rows of the table and, in every
\* row, everything but the date; it changes the date only of an event of the
\* current batch that the notifier has accepted in the current tick.
C18_TickFrame ==
    [][/\ DOMAIN store' = DOMAIN store
       /\ \A i \in DOMAIN store:
             /\ store'[i].id = store[i].id
             /\ store'[i].name = store[i].name
             /\ store'[i].message = store[i].message
             /\ store'[i].recurrence_pattern = store[i].recurrence_pattern
             /\ store'[i].deleted_at = store[i].deleted_at
             /\ store'[i].date # store[i].date =>
                   /\ \E j \in DOMAIN events: events[j].id = store[i].id
                   /\ \E p \in NotifsOf(ticks):
                         notifs[p].id = store[i].id /\ notifs[p].ok]_vars

\* A tick has stored a new date for one of two events due together; the
\* other row is as it was created.
C18_Witness ==
    /\ TickOver
    /\ Len(store) = 2
    /\ Len(events) = 2
    /\ \E p \in WritesOf(ticks), id \in Ids:
          /\ writes[p].outcome = "ok"
          /\ store[writes[p].id].date.at # writes[p].old
          /\ id # writes[p].id
          /\ store[id] = created[id]

(* ------------------------------------------------------------------ *)
(* C19                                                                 *)
(* ------------------------------------------------------------------ *)

\* Position in the batch of its first recurring event (0: there is none).
FirstRecurring ==
    LET rec == {i \in DOMAIN events: events[i].recurrence_pattern # "Once"}
    IN  IF rec = {} THEN 0 ELSE CHOOSE i \in rec: \A j \in rec: i <= j

\* C19: no tick has more than one update call; once a tick has made its
\* update call it has returned, the call was for the first recurring event of
\* the batch, and the notifier has been called, once each and in order, for
\* exactly the events of the batch up to that one.
C19_OneUpdatePerTick ==
    /\ \A k \in 1..ticks: Cardinality(WritesOf(k)) <= 1
    /\ WritesOf(ticks) # {} =>
          /\ pc \in {"log", "wait"}
          /\ FirstRecurring >= 1
          /\ NotifiedNow = BatchIds(FirstRecurring)
          /\ \A p \in WritesOf(ticks): writes[p].id = events[FirstRecurring].id

\* Two recurring events due together, the update of the first failed: the
\* tick is over with one notifier call.
C19_Witness ==
    /\ TickOver
    /\ Len(events) = 2
    /\ FirstRecurring = 1
    /\ events[2].recurrence_pattern # "Once"
    /\ Len(NotifiedNow) = 1
    /\ \E p \in WritesOf(ticks): writes[p].outcome = "execute failed"

(* ------------------------------------------------------------------ *)
(* C20                                                                 *)
(* ------------------------------------------------------------------ *)

\* A live Monthly event whose day the following month lacks.
Stuck(id) ==
    /\ Live(created[id])
    /\ created[id].recurrence_pattern = "monthly"
    /\ ~DayExistsNext(CivilOf(created[id].date.at))

InBatch(id) == \E j \in DOMAIN events: events[j].id = id

JustEdited(kind) == {e.id : e \in {x \in edits: x.kind = kind /\ x.tick = ticks - 1}}

\* C15: the batch of a tick is what the selection rule gives on the table as
\* it is in that tick, with the dates the table has in that tick: a row
\* deleted since the last tick is not in the batch, a row inserted or re-dated
\* since the last tick is in the batch exactly when it is due now; and the
\* notifier is called only for rows that are not deleted, with their date of
\* now.
C15_EveryTickReadsTheStore ==
    pc \in {"loop", "update"} =>
        /\ {events[j].id : j \in DOMAIN events} =
              {id \in Ids: /\ ExpectedDue(store[id], now)
                           /\ store[id].recurrence_pattern \in RecurrenceTexts}
        /\ \A j \in DOMAIN events:
              /\ events[j].date = store[events[j].id].date.at
              /\ events[j].deleted_at = store[events[j].id].deleted_at
        /\ \A id \in JustEdited("delete"): ~InBatch(id)
        /\ \A id \in JustEdited("insert") \cup JustEdited("redate"):
              InBatch(id) <=> (/\ ExpectedDue(store[id], now)
                               /\ store[id].recurrence_pattern \in RecurrenceTexts)
        /\ \A p \in NotifsOf(ticks):
              /\ store[notifs[p].id].deleted_at = {}
              /\ notifs[p].date = store[notifs[p].id].date.at

\* A tick whose batch holds a row inserted since the last tick, while a row
\* deleted since the last tick, its minute matching, is not in it.
C15_Witness ==
    /\ pc = "loop"
    /\ \E id \in JustEdited("insert"): InBatch(id)
    /\ \E id \in JustEdited("delete"):
          /\ MinuteOf(store[id].date.at) - MinuteOf(now) \in {0, 10}
          /\ store[id].date.text = "rfc3339"
          /\ ~InBatch(id)

(* ------------------------------------------------------------------ *)
(* C17                                                                 *)
(* ------------------------------------------------------------------ *)

\* The event the current tick failed on: the one whose notifier call or date
\* update failed.
FailedOn ==
    {notifs[p].id : p \in {q \in NotifsOf(ticks): ~notifs[q].ok}}
    \cup
    {writes[p].id : p \in {q \in WritesOf(ticks):
                              writes[q].outcome \in {"prepare failed", "execute failed"}}}

\* C17: the error record of a tick that failed on an event names
\* that event's id.
C17_ErrorLogNamesEvent ==
    (pc = "wait" /\ FailedOn # {}) => FailedOn \subseteq log.event_id

====
